---------------------------- MODULE Spec2Model ----------------------------
(***************************************************************************)
(* A model of the full-text search engine of src/main.go.                  *)
(*                                                                         *)
(* src/main.go holds two evolutions of the engine:                         *)
(*   - lines 1-270: the FTS controller (NewFTS, AddDocument, Start,        *)
(*     Search, rankSearchResults, handleSearch);                           *)
(*   - lines 272-501: the earlier global-variable variant (docs, init,     *)
(*     searchTFIDF, letterByLetterSearch, handleSearch).  Its definitions  *)
(*     carry the prefix V2_ where the name would clash.                    *)
(*                                                                         *)
(* Texts are sequences of one-character strings, so that tokenize really   *)
(* splits and lowercases.  A float64 is modelled by an exact rational      *)
(* [num, den]; math.Log by a fixed-point logarithm that is exactly         *)
(* additive over products, so two weights are equal in the model exactly   *)
(* when they are equal as real numbers.  Rounding of float64 arithmetic    *)
(* is not modelled.                                                        *)
(***************************************************************************)
EXTENDS Integers, Sequences, FiniteSets, TLC

(***************************************************************************)
(* Bounds of the model.                                                    *)
(***************************************************************************)
MaxDocs == 2

MaxStarts == 2

MaxScore == 2

DocIDs == 1..MaxDocs

(***************************************************************************)
(* Characters and texts.                                                   *)
(***************************************************************************)
TextEmpty == <<>>
TextA == <<"a">>
TextAb == <<"A", " ", "b">>
TextAab == <<"a", " ", "a", " ", "b">>
TextB == <<" ", "B">>
TextBc == <<"b", " ", " ", "C">>

\* The texts a document may carry.
Texts == {TextEmpty, TextAab, TextB, TextBc}

\* The queries a caller may send.
Queries == {TextEmpty, TextA, TextAb, TextBc}

\* unicode.IsSpace, restricted to the characters of the model
IsSpace(c) == c = " "

\* unicode.ToLower, restricted to the characters of the model
LowerChar(c) ==
    CASE c = "A" -> "a"
      [] c = "B" -> "b"
      [] c = "C" -> "c"
      [] OTHER -> c

\* strings.ToLower
ToLower(word) == [k \in DOMAIN word |-> LowerChar(word[k])]

RECURSIVE FieldsFrom(_, _, _, _)
FieldsFrom(s, i, cur, out) ==
    IF i > Len(s)
    THEN IF cur = <<>> THEN out ELSE Append(out, cur)
    ELSE IF IsSpace(s[i])
         THEN FieldsFrom(s, i + 1, <<>>, IF cur = <<>> THEN out ELSE Append(out, cur))
         ELSE FieldsFrom(s, i + 1, Append(cur, s[i]), out)

\* strings.Fields: the maximal runs of non-space characters, in order
Fields(s) == FieldsFrom(s, 1, <<>>, <<>>)

\* tokenize: split on whitespace runs, lowercase every word
tokenize(text) ==
    LET words == Fields(text)
    IN  [i \in DOMAIN words |-> ToLower(words[i])]

Range(f) == {f[x] : x \in DOMAIN f}

(***************************************************************************)
(* Exact rationals standing for float64 values.                            *)
(***************************************************************************)
Abs(x) == IF x < 0 THEN -x ELSE x

RECURSIVE GCD(_, _)
GCD(a, b) == IF b = 0 THEN a ELSE GCD(b, a % b)

\* the rational n/d (d > 0) in lowest terms
Rat(n, d) ==
    LET g == GCD(Abs(n), d)
    IN  IF n = 0 THEN [num |-> 0, den |-> 1]
        ELSE [num |-> n \div g, den |-> d \div g]

RZero == Rat(0, 1)

RInt(n) == Rat(n, 1)

RAdd(x, y) == Rat(x.num * y.den + y.num * x.den, x.den * y.den)

RMul(x, y) == Rat(x.num * y.num, x.den * y.den)

\* x > y
RGreater(x, y) == x.num * y.den > y.num * x.den

RGeq(x, y) == x.num * y.den >= y.num * x.den

(***************************************************************************)
(* math.Log in fixed point (units of 1/10000).  Ln is additive over        *)
(* products because it is summed over the prime factors, so                *)
(* Log(n, c) = Log(n', c') exactly when n/c = n'/c'.                       *)
(***************************************************************************)
LnPrime ==
    [p \in {2, 3, 5, 7, 11, 13, 17, 19, 23, 29, 31, 37, 41, 43, 47} |->
        CASE p = 2 -> 6931
          [] p = 3 -> 10986
          [] p = 5 -> 16094
          [] p = 7 -> 19459
          [] p = 11 -> 23979
          [] p = 13 -> 25649
          [] p = 17 -> 28332
          [] p = 19 -> 29444
          [] p = 23 -> 31355
          [] p = 29 -> 33673
          [] p = 31 -> 34340
          [] p = 37 -> 36109
          [] p = 41 -> 37136
          [] p = 43 -> 37612
          [] p = 47 -> 38501]

SmallestFactor(n) == CHOOSE p \in 2..n : n % p = 0 /\ \A q \in 2..(p - 1) : n % q # 0

RECURSIVE Ln(_)
Ln(n) == IF n = 1 THEN 0 ELSE LET p == SmallestFactor(n) IN LnPrime[p] + Ln(n \div p)

\* math.Log(float64(n) / float64(c)), n >= 1, c >= 1
Log(n, c) == Ln(n) - Ln(c)

(***************************************************************************)
(* Maps.                                                                   *)
(***************************************************************************)
EmptyMap == <<>>

\* m[k] = v on a Go map: insert or overwrite
Put(m, k, v) == [x \in (DOMAIN m) \cup {k} |-> IF x = k THEN v ELSE m[x]]

\* a Go map read: the zero value (a nil slice) when the key is absent
GetSlice(m, k) == IF k \in DOMAIN m THEN m[k] ELSE <<>>

\* a Go map read: the zero value 0.0 when the key is absent
GetFloat(m, k) == IF k \in DOMAIN m THEN m[k] ELSE RZero

(***************************************************************************)
(* Documents.  Only GenericDocument (inline text) is modelled: GetText of  *)
(* a WebDocument or PDFDocument is I/O.  The caller gives every document   *)
(* an ID of its own (IDs are unique within a collection).                  *)
(***************************************************************************)
GenericDocument(id, text) == [ID |-> id, Text |-> text]

IDsOf(documents) == {documents[i].ID : i \in DOMAIN documents}

\* number of occurrences of token in tokens
Count(tokens, token) == Cardinality({i \in DOMAIN tokens : tokens[i] = token})

\* calculateTermFrequency: occurrences / total, an empty map for no tokens
calculateTermFrequency(tokens) ==
    [t \in Range(tokens) |-> Rat(Count(tokens, t), Len(tokens))]

\* calculateIDF: ln(totalDocs / len(postings)) for every term of the index
calculateIDF(index, totalDocs) ==
    [term \in DOMAIN index |-> Log(totalDocs, Len(index[term]))]

AppendPosting_Prepend(index, token, id) ==
    Put(index, token, <<id>> \o GetSlice(index, token))

\* main.go:121, one pass of the inner loop of buildInvertedIndex
AppendPosting(index, token, id) == Put(index, token, Append(GetSlice(index, token), id))

RECURSIVE AppendPostings(_, _, _, _)
AppendPostings(index, tokens, id, j) ==
    IF j > Len(tokens) THEN index
    ELSE AppendPostings(AppendPosting(index, tokens[j], id), tokens, id, j + 1)

RECURSIVE InvertedFrom(_, _, _)
InvertedFrom(index, documents, i) ==
    IF i > Len(documents) THEN index
    ELSE InvertedFrom(AppendPostings(index, tokenize(documents[i].Text), documents[i].ID, 1),
                      documents, i + 1)

\* FTS.buildInvertedIndex: appends to the index the controller already holds
buildInvertedIndex(documents, index) == InvertedFrom(index, documents, 1)

\* main.go:134-138, one pass of the inner loop of buildTFIDFIndex
StoreWeight(tfidf, idf, id, token, tf) ==
    LET idfValue == IF token \in DOMAIN idf THEN idf[token] ELSE 0
        inner == IF token \in DOMAIN tfidf THEN tfidf[token] ELSE EmptyMap
    IN  Put(tfidf, token, Put(inner, id, RMul(tf, RInt(idfValue))))

RECURSIVE StoreWeights(_, _, _, _, _)
StoreWeights(tfidf, idf, id, docTF, todo) ==
    IF todo = {} THEN tfidf
    ELSE LET token == CHOOSE t \in todo : TRUE
         IN  StoreWeights(StoreWeight(tfidf, idf, id, token, docTF[token]),
                          idf, id, docTF, todo \ {token})

RECURSIVE TFIDFFrom(_, _, _, _)
TFIDFFrom(tfidf, idf, documents, i) ==
    IF i > Len(documents) THEN tfidf
    ELSE LET docTF == calculateTermFrequency(tokenize(documents[i].Text))
         IN  TFIDFFrom(StoreWeights(tfidf, idf, documents[i].ID, docTF, DOMAIN docTF),
                       idf, documents, i + 1)

\* FTS.buildTFIDFIndex: stores into the index the controller already holds
buildTFIDFIndex(documents, index, tfidf) ==
    TFIDFFrom(tfidf, calculateIDF(index, Len(documents)), documents, 1)

\* main.go:150-154, one pass of the outer loop of Search
Accumulate(result, tfidf, term, tf) ==
    IF term \in DOMAIN tfidf
    THEN [d \in (DOMAIN result) \cup (DOMAIN tfidf[term]) |->
            IF d \in DOMAIN tfidf[term]
            THEN RAdd(GetFloat(result, d), RMul(tf, tfidf[term][d]))
            ELSE result[d]]
    ELSE result

RECURSIVE AccumulateAll(_, _, _, _)
AccumulateAll(result, tfidf, queryTF, todo) ==
    IF todo = {} THEN result
    ELSE LET term == CHOOSE t \in todo : TRUE
         IN  AccumulateAll(Accumulate(result, tfidf, term, queryTF[term]),
                           tfidf, queryTF, todo \ {term})

Search_EveryTerm(tfidf, query) ==
    LET queryTF == calculateTermFrequency(tokenize(query))
        every == [t \in DOMAIN tfidf |-> GetFloat(queryTF, t)]
    IN  AccumulateAll(EmptyMap, tfidf, every, DOMAIN tfidf)

\* FTS.Search
Search(tfidf, query) ==
    LET queryTF == calculateTermFrequency(tokenize(query))
    IN  AccumulateAll(EmptyMap, tfidf, queryTF, DOMAIN queryTF)

\* the orderings of the keys of results
Orderings(results) ==
    LET n == Cardinality(DOMAIN results)
    IN  {p \in [1..n -> DOMAIN results] : \A i, j \in 1..n : i # j => p[i] # p[j]}

rankSearchResults_Ascending(results) ==
    {p \in Orderings(results) :
        \A i, j \in DOMAIN p : i < j => ~RGreater(results[p[i]], results[p[j]])}

\* rankSearchResults: the slices it may return.  The keys are collected in
\* map-iteration order and sorted with sort.Slice (not stable) under
\* less(i, j) = score[i] > score[j]: any ordering in which no later element
\* has a greater score than an earlier one.
rankSearchResults(results) ==
    {p \in Orderings(results) :
        \A i, j \in DOMAIN p : i < j => ~RGreater(results[p[j]], results[p[i]])}

\* main.go:230-235, the text of the first document carrying docID
TextOf(documents, docID) ==
    LET hits == {i \in DOMAIN documents : documents[i].ID = docID}
    IN  IF hits = {} THEN <<>>
        ELSE <<documents[CHOOSE i \in hits : \A k \in hits : i <= k].Text>>

RECURSIVE TextsOf(_, _, _)
TextsOf(documents, ranked, k) ==
    IF k > Len(ranked) THEN <<>>
    ELSE TextOf(documents, ranked[k]) \o TextsOf(documents, ranked, k + 1)

\* handleSearch: the texts of the ranked documents, in ranked order
handleSearch(documents, rankedResults) == TextsOf(documents, rankedResults, 1)

(***************************************************************************)
(* The earlier variant (main.go:272-501): global docs, indexes built once  *)
(* by init() into new maps.                                                *)
(***************************************************************************)
\* buildInvertedIndex(docs) of the earlier variant: builds into a new map
V2_buildInvertedIndex(documents) == InvertedFrom(EmptyMap, documents, 1)

\* buildTFIDFIndex(docs, invertedIndex) of the earlier variant: a new map
V2_buildTFIDFIndex(documents, index) ==
    TFIDFFrom(EmptyMap, calculateIDF(index, Len(documents)), documents, 1)

\* searchTFIDF
searchTFIDF(tfidf, query) ==
    LET queryTF == calculateTermFrequency(tokenize(query))
    IN  AccumulateAll(EmptyMap, tfidf, queryTF, DOMAIN queryTF)

\* strings.Contains: substr occurs in s at some offset (at offset 0 when empty)
Contains(s, substr) ==
    \E k \in 0..(Len(s) - Len(substr)) : \A i \in 1..Len(substr) : s[k + i] = substr[i]

\* letterByLetterSearch: the IDs of the documents whose lowercased text
\* contains the lowercased query (returned in map-iteration order)
letterByLetterSearch(documents, query) ==
    {documents[i].ID : i \in {k \in DOMAIN documents :
                                 Contains(ToLower(documents[k].Text), ToLower(query))}}

RECURSIVE Filter(_, _, _)
Filter(seq, keep, k) ==
    IF k > Len(seq) THEN <<>>
    ELSE (IF seq[k] \in keep THEN <<seq[k]>> ELSE <<>>) \o Filter(seq, keep, k + 1)

\* main.go:464-483: the ranked documents that are suggestions, in ranked
\* order, then the suggestions left, in the order rest
V2_handleSearch(documents, rankedResults, suggestions, rest) ==
    TextsOf(documents, Filter(rankedResults, suggestions, 1) \o rest, 1)

\* the orderings of a set
OrderingsOf(S) ==
    {p \in [1..Cardinality(S) -> S] : \A i, j \in 1..Cardinality(S) : i # j => p[i] # p[j]}

\* the collections of at most MaxDocs documents with IDs of their own
Collections ==
    {c \in UNION {[1..n -> [ID : DocIDs, Text : Texts]] : n \in 0..MaxDocs} :
        \A i, j \in DOMAIN c : i # j => c[i].ID # c[j].ID}

(***************************************************************************)
(* The state.                                                              *)
(***************************************************************************)
VARIABLES
    Documents,      \* FTS.Documents
    InvertedIndex,  \* FTS.InvertedIndex
    TFIDFIndex,     \* FTS.TFIDFIndex
    starts,         \* history: the number of Start calls so far
    fresh,          \* history: a Start has run and no AddDocument since
    added,          \* history: the document the last AddDocument call was given
    resp,           \* the last request answered since the controller last changed
    docs,           \* var docs of the earlier variant
    invertedIndex,  \* var invertedIndex of the earlier variant
    tfidfIndex,     \* var tfidfIndex of the earlier variant
    writer,         \* a goroutine running Start step by step
    reader          \* a goroutine running Search step by step

ftsVars == <<Documents, InvertedIndex, TFIDFIndex, starts, fresh, added>>

v2Vars == <<docs, invertedIndex, tfidfIndex>>

concVars == <<writer, reader>>

vars == <<Documents, InvertedIndex, TFIDFIndex, starts, fresh, added, resp,
          docs, invertedIndex, tfidfIndex, writer, reader>>

\* no AddDocument call yet
NoDocument == [ID |-> 0, Text |-> <<>>]

NoResp == [op |-> "none", query |-> <<>>, scores |-> EmptyMap, ranked |-> <<>>, texts |-> <<>>]

WriterIdle ==
    [pc |-> "idle", i |-> 1, j |-> 1, idf |-> EmptyMap, todo |-> {},
     pre |-> [inverted |-> EmptyMap, tfidf |-> EmptyMap]]

ReaderIdle ==
    [pc |-> "idle", query |-> <<>>, todo |-> {}, cur |-> <<>>, snap |-> {}, seen |-> {},
     result |-> EmptyMap]

\* NewFTS
NewFTS ==
    /\ Documents = <<>>
    /\ InvertedIndex = EmptyMap
    /\ TFIDFIndex = EmptyMap

\* func init() of the earlier variant, over the documents given
V2_init(documents) ==
    /\ docs = documents
    /\ invertedIndex = V2_buildInvertedIndex(documents)
    /\ tfidfIndex = V2_buildTFIDFIndex(documents, invertedIndex)

Init ==
    /\ NewFTS
    /\ starts = 0
    /\ fresh = FALSE
    /\ added = NoDocument
    /\ resp = NoResp
    /\ V2_init(<<>>)
    /\ writer = WriterIdle
    /\ reader = ReaderIdle

(***************************************************************************)
(* The controller, one call at a time.                                     *)
(***************************************************************************)
AddDocument_Indexing(id, text) ==
    /\ Len(Documents) < MaxDocs
    /\ id \notin IDsOf(Documents)
    /\ Documents' = Append(Documents, GenericDocument(id, text))
    /\ added' = GenericDocument(id, text)
    /\ InvertedIndex' = AppendPostings(InvertedIndex, tokenize(text), id, 1)
    /\ TFIDFIndex' = buildTFIDFIndex(Documents', InvertedIndex', TFIDFIndex)
    /\ fresh' = FALSE
    /\ resp' = NoResp
    /\ UNCHANGED <<starts, v2Vars, concVars>>

\* FTS.AddDocument
AddDocument(id, text) ==
    /\ Len(Documents) < MaxDocs
    /\ id \notin IDsOf(Documents)
    /\ Documents' = Append(Documents, GenericDocument(id, text))
    /\ added' = GenericDocument(id, text)
    /\ fresh' = FALSE
    /\ resp' = NoResp
    /\ UNCHANGED <<InvertedIndex, TFIDFIndex, starts, v2Vars, concVars>>

\* FTS.Start
Start ==
    /\ starts < MaxStarts
    /\ InvertedIndex' = buildInvertedIndex(Documents, InvertedIndex)
    /\ TFIDFIndex' = buildTFIDFIndex(Documents, InvertedIndex', TFIDFIndex)
    /\ starts' = starts + 1
    /\ fresh' = TRUE
    /\ resp' = NoResp
    /\ UNCHANGED <<Documents, added, v2Vars, concVars>>

\* a call of FTS.Search
SearchCall(query) ==
    /\ resp' = [op |-> "Search", query |-> query, scores |-> Search(TFIDFIndex, query),
                ranked |-> <<>>, texts |-> <<>>]
    /\ UNCHANGED <<ftsVars, v2Vars, concVars>>

\* a request served by handleSearch (main.go:223-246)
HandleSearchCall(query) ==
    LET searchResults == Search(TFIDFIndex, query)
    IN  \E rankedResults \in rankSearchResults(searchResults) :
            /\ resp' = [op |-> "handleSearch", query |-> query, scores |-> searchResults,
                        ranked |-> rankedResults,
                        texts |-> handleSearch(Documents, rankedResults)]
            /\ UNCHANGED <<ftsVars, v2Vars, concVars>>

Next ==
    \/ \E id \in DocIDs, text \in Texts : AddDocument(id, text)
    \/ Start
    \/ \E query \in Queries : SearchCall(query)
    \/ \E query \in Queries : HandleSearchCall(query)

Spec == Init /\ [][Next]_vars

(***************************************************************************)
(* rankSearchResults on score maps of its own.                             *)
(***************************************************************************)
RankIDs == 1..(MaxDocs + 1)

Scores == {Rat(k, 2) : k \in (0 - MaxScore)..MaxScore}

ScoreMaps == UNION {[S -> Scores] : S \in SUBSET RankIDs}

\* the score map handed to rankSearchResults is drawn at the start
InitRank ==
    /\ NewFTS
    /\ starts = 0
    /\ fresh = FALSE
    /\ added = NoDocument
    /\ \E results \in ScoreMaps :
           resp = [op |-> "rankInput", query |-> <<>>, scores |-> results,
                   ranked |-> <<>>, texts |-> <<>>]
    /\ V2_init(<<>>)
    /\ writer = WriterIdle
    /\ reader = ReaderIdle

\* a call of rankSearchResults
RankCall ==
    /\ resp.op = "rankInput"
    /\ \E rankedResults \in rankSearchResults(resp.scores) :
           resp' = [resp EXCEPT !.op = "rank", !.ranked = rankedResults]
    /\ UNCHANGED <<ftsVars, v2Vars, concVars>>

NextRank == RankCall

SpecRank == InitRank /\ [][NextRank]_vars

(***************************************************************************)
(* The earlier variant serving requests.                                   *)
(***************************************************************************)
InitV2 ==
    /\ NewFTS
    /\ starts = 0
    /\ fresh = FALSE
    /\ added = NoDocument
    /\ resp = NoResp
    /\ \E documents \in Collections : V2_init(documents)
    /\ writer = WriterIdle
    /\ reader = ReaderIdle

\* a request served by handleSearch of the earlier variant (main.go:451-493)
V2_HandleSearchCall(query) ==
    LET searchResults == searchTFIDF(tfidfIndex, query)
        suggestions == letterByLetterSearch(docs, query)
    IN  \E rankedResults \in rankSearchResults(searchResults) :
        \E rest \in OrderingsOf(suggestions \ Range(rankedResults)) :
            /\ resp' = [op |-> "handleSearchV2", query |-> query, scores |-> searchResults,
                        ranked |-> rankedResults,
                        texts |-> V2_handleSearch(docs, rankedResults, suggestions, rest)]
            /\ UNCHANGED <<ftsVars, v2Vars, concVars>>

NextV2 == \E query \in Queries : V2_HandleSearchCall(query)

SpecV2 == InitV2 /\ [][NextV2]_vars

(***************************************************************************)
(* Start and Search as two goroutines on one controller, step by step.     *)
(* A step is one access to a shared map: an append to a posting list       *)
(* (main.go:121), a store of a weight (main.go:135-138), a lookup of a     *)
(* query term (main.go:150), a pass of the range over the weights of that  *)
(* term (main.go:151-152).  The code takes no lock.  The Go runtime may    *)
(* end the process with "fatal error: concurrent map read and map write"   *)
(* when an access of the reader overlaps a write to the same map.          *)
(***************************************************************************)
DocTF(i) == calculateTermFrequency(tokenize(Documents[i].Text))

\* the documents from position i on that have a token
WithTokens(i) == {k \in i..Len(Documents) : tokenize(Documents[k].Text) # <<>>}

First(S) == CHOOSE k \in S : \A m \in S : k <= m

InitConc ==
    /\ Documents \in Collections \ {<<>>}
    /\ \E built \in BOOLEAN :
           /\ InvertedIndex = IF built THEN buildInvertedIndex(Documents, EmptyMap) ELSE EmptyMap
           /\ TFIDFIndex = IF built THEN buildTFIDFIndex(Documents, InvertedIndex, EmptyMap)
                           ELSE EmptyMap
           /\ starts = IF built THEN 1 ELSE 0
           /\ fresh = built
    /\ added = Documents[Len(Documents)]
    /\ resp = NoResp
    /\ V2_init(<<>>)
    /\ writer = WriterIdle
    /\ reader = ReaderIdle

\* the writer enters the loop at position (i, j), or leaves it for calculateIDF
WriterAt(w, i, j) ==
    IF j <= Len(tokenize(Documents[i].Text))
    THEN [w EXCEPT !.pc = "inverted", !.i = i, !.j = j]
    ELSE IF WithTokens(i + 1) # {}
         THEN [w EXCEPT !.pc = "inverted", !.i = First(WithTokens(i + 1)), !.j = 1]
         ELSE [w EXCEPT !.pc = "idf"]

\* Start is called
WriterBegin ==
    /\ writer.pc = "idle"
    /\ starts < MaxStarts
    /\ writer' = WriterAt([writer EXCEPT !.pre = [inverted |-> InvertedIndex,
                                                  tfidf |-> TFIDFIndex]], 1, 1)
    /\ UNCHANGED <<ftsVars, resp, v2Vars, reader>>

\* buildInvertedIndex: one append (main.go:121)
WriterAppend ==
    /\ writer.pc = "inverted"
    /\ InvertedIndex' = AppendPosting(InvertedIndex,
                                      tokenize(Documents[writer.i].Text)[writer.j],
                                      Documents[writer.i].ID)
    /\ writer' = WriterAt(writer, writer.i, writer.j + 1)
    /\ UNCHANGED <<Documents, added, TFIDFIndex, starts, fresh, resp, v2Vars, reader>>

\* buildTFIDFIndex: totalDocs and calculateIDF (main.go:127-128)
WriterIDF ==
    /\ writer.pc = "idf"
    /\ writer' = IF WithTokens(1) = {}
                 THEN [writer EXCEPT !.pc = "done"]
                 ELSE [writer EXCEPT !.pc = "tfidf",
                                     !.idf = calculateIDF(InvertedIndex, Len(Documents)),
                                     !.i = First(WithTokens(1)),
                                     !.todo = DOMAIN DocTF(First(WithTokens(1)))]
    /\ starts' = IF WithTokens(1) = {} THEN starts + 1 ELSE starts
    /\ fresh' = IF WithTokens(1) = {} THEN TRUE ELSE fresh
    /\ UNCHANGED <<Documents, added, InvertedIndex, TFIDFIndex, resp, v2Vars, reader>>

\* buildTFIDFIndex: one store (main.go:134-138), in map-iteration order
WriterStore(token) ==
    /\ writer.pc = "tfidf"
    /\ token \in writer.todo
    /\ TFIDFIndex' = StoreWeight(TFIDFIndex, writer.idf, Documents[writer.i].ID, token,
                                 DocTF(writer.i)[token])
    /\ LET left == writer.todo \ {token}
           more == WithTokens(writer.i + 1)
       IN  /\ writer' = IF left # {} THEN [writer EXCEPT !.todo = left]
                        ELSE IF more # {}
                             THEN [writer EXCEPT !.i = First(more),
                                                 !.todo = DOMAIN DocTF(First(more))]
                             ELSE [writer EXCEPT !.pc = "done", !.todo = {}]
           /\ starts' = IF left = {} /\ more = {} THEN starts + 1 ELSE starts
           /\ fresh' = IF left = {} /\ more = {} THEN TRUE ELSE fresh
    /\ UNCHANGED <<Documents, added, InvertedIndex, resp, v2Vars, reader>>

\* the reader has finished with a term
ReaderNext(r, left) ==
    [r EXCEPT !.pc = IF left = {} THEN "done" ELSE "lookup", !.todo = left,
              !.cur = <<>>, !.snap = {}, !.seen = {}]

\* Search is called (main.go:144-147)
ReaderBegin(query) ==
    /\ reader.pc = "idle"
    /\ reader' = ReaderNext([reader EXCEPT !.query = query],
                            DOMAIN calculateTermFrequency(tokenize(query)))
    /\ UNCHANGED <<ftsVars, resp, v2Vars, writer>>

\* Search: the lookup of one query term (main.go:150), in map-iteration order
ReaderLookup(term) ==
    /\ reader.pc = "lookup"
    /\ term \in reader.todo
    /\ reader' = IF term \in DOMAIN TFIDFIndex
                 THEN [reader EXCEPT !.pc = "ranging", !.cur = term,
                                     !.snap = DOMAIN TFIDFIndex[term], !.seen = {}]
                 ELSE ReaderNext(reader, reader.todo \ {term})
    /\ UNCHANGED <<ftsVars, resp, v2Vars, writer>>

\* Search: one pass of the range over the weights of the term (main.go:151-152)
ReaderVisit(docID) ==
    /\ reader.pc = "ranging"
    /\ docID \in (DOMAIN TFIDFIndex[reader.cur]) \ reader.seen
    /\ LET tf == calculateTermFrequency(tokenize(reader.query))[reader.cur]
       IN  reader' = [reader EXCEPT
                         !.result = Put(reader.result, docID,
                                        RAdd(GetFloat(reader.result, docID),
                                             RMul(tf, TFIDFIndex[reader.cur][docID]))),
                         !.seen = reader.seen \cup {docID}]
    /\ UNCHANGED <<ftsVars, resp, v2Vars, writer>>

\* Search: the range ends; an entry stored after it began may have been skipped
ReaderEndRange ==
    /\ reader.pc = "ranging"
    /\ reader.snap \subseteq reader.seen
    /\ reader' = ReaderNext(reader, reader.todo \ {reader.cur})
    /\ UNCHANGED <<ftsVars, resp, v2Vars, writer>>

\* the runtime finds the reader's access overlapping a store of the writer
Fatal ==
    /\ writer.pc = "tfidf"
    /\ \E token \in writer.todo :
           \/ reader.pc = "lookup" /\ token \notin DOMAIN TFIDFIndex
           \/ reader.pc = "ranging" /\ token = reader.cur
    /\ writer' = [writer EXCEPT !.pc = "fatal"]
    /\ reader' = [reader EXCEPT !.pc = "fatal"]
    /\ UNCHANGED <<ftsVars, resp, v2Vars>>

NextConc ==
    \/ WriterBegin
    \/ WriterAppend
    \/ WriterIDF
    \/ \E token \in writer.todo : WriterStore(token)
    \/ \E query \in Queries : ReaderBegin(query)
    \/ \E term \in reader.todo : ReaderLookup(term)
    \/ \E docID \in DocIDs : ReaderVisit(docID)
    \/ ReaderEndRange
    \/ Fatal

SpecConc == InitConc /\ [][NextConc]_vars

\* the indexes when the writer's Start was called
PreBuild ==
    IF writer.pc = "idle" THEN [inverted |-> InvertedIndex, tfidf |-> TFIDFIndex]
    ELSE writer.pre

\* the TF-IDF index that Start, run alone, leaves
PostBuild ==
    buildTFIDFIndex(Documents, buildInvertedIndex(Documents, PreBuild.inverted), PreBuild.tfidf)

\* the steps of the writer add up to Start
WriterIsStart ==
    writer.pc = "done" =>
        /\ InvertedIndex = buildInvertedIndex(Documents, PreBuild.inverted)
        /\ TFIDFIndex = PostBuild

\* the steps of the reader, with no writer running, add up to Search
ReaderIsSearch ==
    (reader.pc = "done" /\ writer.pc = "idle") =>
        reader.result = Search(TFIDFIndex, reader.query)

(***************************************************************************)
(* What the documentation says of a collection, for the claims below.      *)
(***************************************************************************)
\* the distinct terms of a text
TermsOf(text) == Range(tokenize(text))

\* the positions of the documents whose text contains term
Containing(documents, term) == {i \in DOMAIN documents : term \in TermsOf(documents[i].Text)}

\* ln(N / k), k the number of documents containing term
DocumentedIDF(documents, term) ==
    Log(Len(documents), Cardinality(Containing(documents, term)))

RECURSIVE RSum(_, _)
RSum(f, todo) ==
    IF todo = {} THEN RZero
    ELSE LET x == CHOOSE y \in todo : TRUE IN RAdd(f[x], RSum(f, todo \ {x}))

\* sum over the distinct query terms in the document of queryTF * TF * IDF
DocumentedScore(documents, i, query) ==
    LET queryTF == calculateTermFrequency(tokenize(query))
        docTF == calculateTermFrequency(tokenize(documents[i].Text))
        common == (DOMAIN queryTF) \cap (DOMAIN docTF)
        part == [t \in common |->
                    RMul(RMul(queryTF[t], docTF[t]), RInt(DocumentedIDF(documents, t)))]
    IN  RSum(part, common)

\* the state right after the first Start of a new controller
FirstBuild == starts = 1 /\ fresh

(***************************************************************************)
(* C1: Start called again with no AddDocument since the last Start leaves  *)
(* every TF-IDF weight as it was.                                          *)
(***************************************************************************)
C1_StartIdempotent ==
    [][(fresh /\ starts' = starts + 1) => TFIDFIndex' = TFIDFIndex]_vars

(***************************************************************************)
(* C2: after a sequence of AddDocument and Start calls that ends with      *)
(* Start, the inverted index is the one a new controller builds from the   *)
(* same collection.                                                        *)
(***************************************************************************)
C2_RebuildReplaces ==
    fresh => InvertedIndex = buildInvertedIndex(Documents, EmptyMap)

(***************************************************************************)
(* C4: after the first Start, Search(q) has exactly the documents holding  *)
(* a token of q as keys, each scored sum of queryTF * TF * IDF, so a       *)
(* document matching a query term that some document lacks scores          *)
(* strictly higher than one matching only terms present in every document. *)
(***************************************************************************)
C4_SearchScores ==
    (FirstBuild /\ resp.op = "Search") =>
        LET q == TermsOf(resp.query)
            hit == {i \in DOMAIN Documents : TermsOf(Documents[i].Text) \cap q # {}}
            everywhere == {t \in q : Containing(Documents, t) = DOMAIN Documents}
        IN  /\ DOMAIN resp.scores = {Documents[i].ID : i \in hit}
            /\ \A i \in hit :
                   resp.scores[Documents[i].ID] = DocumentedScore(Documents, i, resp.query)
            /\ \A i, j \in hit :
                   (/\ (TermsOf(Documents[i].Text) \cap q) \ everywhere # {}
                    /\ (TermsOf(Documents[j].Text) \cap q) \subseteq everywhere)
                   => RGreater(resp.scores[Documents[i].ID], resp.scores[Documents[j].ID])

PositionOf(documents, id) == CHOOSE i \in DOMAIN documents : documents[i].ID = id

C7_InvertedIndex ==
    FirstBuild =>
        /\ DOMAIN InvertedIndex = UNION {TermsOf(Documents[i].Text) : i \in DOMAIN Documents}
        /\ \A t \in DOMAIN InvertedIndex :
               LET p == InvertedIndex[t]
               IN  /\ {Documents[i].ID : i \in Containing(Documents, t)} \subseteq Range(p)
                   /\ \A i, j \in DOMAIN p :
                          i < j => PositionOf(Documents, p[i]) <= PositionOf(Documents, p[j])

C7_Witness ==
    /\ FirstBuild
    /\ \E t \in DOMAIN InvertedIndex :
           \E i, j \in DOMAIN InvertedIndex[t] : i < j /\ InvertedIndex[t][i] > InvertedIndex[t][j]

C10_AtomicView ==
    reader.pc = "done" =>
        reader.result \in {Search(PreBuild.tfidf, reader.query), Search(PostBuild, reader.query)}

(***************************************************************************)
(* C3: an empty query yields an empty result: Search("") returns an empty  *)
(* map, and both request handlers return no text for it.                   *)
(***************************************************************************)
C3_EmptyQuery ==
    (resp.op \in {"Search", "handleSearch", "handleSearchV2"} /\ resp.query = <<>>) =>
        resp.scores = EmptyMap /\ resp.texts = <<>>

(***************************************************************************)
(* C8: rankSearchResults returns every key of the score map exactly once   *)
(* and nothing else, in descending order of score, strictly descending     *)
(* when the scores are all distinct.                                       *)
(***************************************************************************)
C8_Ranked ==
    resp.op = "rank" =>
        LET out == resp.ranked
            score == resp.scores
        IN  /\ Range(out) = DOMAIN score
            /\ Len(out) = Cardinality(DOMAIN score)
            /\ \A i, j \in DOMAIN out : i < j => RGeq(score[out[i]], score[out[j]])
            /\ (\A d, e \in DOMAIN score : d # e => score[d] # score[e])
               => \A i, j \in DOMAIN out : i < j => RGreater(score[out[i]], score[out[j]])

C8_Witness ==
    /\ resp.op = "rank"
    /\ Len(resp.ranked) = 3
    /\ \A d, e \in DOMAIN resp.scores : d # e => resp.scores[d] # resp.scores[e]
    /\ resp.ranked[1] > resp.ranked[2]

(***************************************************************************)
(* C11: AddDocument appends exactly the document it is given at the end    *)
(* of the collection and leaves the inverted index and the TF-IDF index    *)
(* as they were, so no Search result changes by it: the index of the last  *)
(* Start keeps being served until the next Start.                          *)
(***************************************************************************)
C11_AddDocumentFrame ==
    [][added' # added =>
          /\ Documents' = Append(Documents, added')
          /\ InvertedIndex' = InvertedIndex
          /\ TFIDFIndex' = TFIDFIndex
          /\ \A query \in Queries : Search(TFIDFIndex', query) = Search(TFIDFIndex, query)]_vars

C11_Witness ==
    /\ starts >= 1
    /\ ~fresh
    /\ added = Documents[Len(Documents)]
    /\ TermsOf(added.Text) # {}
    /\ resp.op = "Search"
    /\ resp.scores # EmptyMap
    /\ added.ID \notin DOMAIN resp.scores
    /\ TermsOf(added.Text) \cap TermsOf(resp.query) # {}

=============================================================================
